---- MODULE Spec2Model ----
(***************************************************************************)
(* The Resampler and Computer actors of buzzard                            *)
(* (src/buzzard/_actors/resampler.py, src/buzzard/_actors/computer.py)     *)
(* as a state machine.  One action per message handler; a handler runs to  *)
(* completion.  A handler that raises keeps the mutations it made before   *)
(* the raise (Python semantics); `err` names the exception and `ret` the   *)
(* list of messages the handler returned.                                  *)
(*                                                                         *)
(* The pool (Waiting Room / Working Room) is the environment: it receives  *)
(* the messages the handlers return, grants tokens to the jobs it was      *)
(* asked to schedule and reports the completion of the jobs it was asked   *)
(* to launch.                                                              *)
(*                                                                         *)
(* The pooled resources (src/buzzard/_a_pooled_emissary.py) and the nodata *)
(* resolution of ASourceRaster.get_data (src/buzzard/_a_source_raster.py)  *)
(* have their own variables and their own specifications.                  *)
(***************************************************************************)
EXTENDS Integers, Sequences, FiniteSets, TLC

VARIABLES
    alive,                \* ActorResampler._alive
    same_address_space,   \* ActorResampler._same_address_space
    waiting_jobs,         \* ActorResampler._waiting_jobs
    working_jobs,         \* ActorResampler._working_jobs
    prod_array_of_prod_tile,             \* qi -> prod_idx -> array reference
    missing_resample_fps_per_prod_tile,  \* qi -> prod_idx -> set of footprints
    arrays,               \* the numpy arrays allocated so far: reference -> pixels
    computer_alive,       \* ActorComputer._alive
    computer_waiting_jobs,\* ActorComputer._waiting_jobs
    computer_working_jobs,\* ActorComputer._working_jobs
    pool_waiting,         \* Waiting Room: jobs scheduled, no token yet
    pool_working,         \* Working Room: jobs launched with a token, not yet done
    pool_tokens,          \* number of tokens the Waiting Room holds
    last,                 \* the latest handler and the query it was about
    err,                  \* the exception raised by the latest handler, or "none"
    ret,                  \* the messages returned by the latest handler
    sub_count,            \* resample_and_accumulate calls per footprint
    done_count,           \* receive_job_done calls for a job in _working_jobs, per footprint
    made_count,           \* 'made_this_array' messages emitted, per tile
    alloc_count,          \* production arrays allocated, per tile
    back_ds_active_count, \* back_ds: active count per uuid
    emissary_closed,      \* per uuid: the owner went through close()
    emissary_calls,       \* per uuid: calls of back_ds.activate / deactivate so far
    close_trace,          \* per uuid: what close() did, in order
    raster_dtype,         \* ASourceRaster.dtype
    raster_nodata,        \* ASourceRaster.nodata (first band)
    get_data_call         \* the latest get_data: its dst_nodata and the one the back end got

vars == <<alive, same_address_space, waiting_jobs, working_jobs,
          prod_array_of_prod_tile, missing_resample_fps_per_prod_tile, arrays,
          computer_alive, computer_waiting_jobs, computer_working_jobs,
          pool_waiting, pool_working, pool_tokens,
          last, err, ret, sub_count, done_count, made_count, alloc_count,
          back_ds_active_count, emissary_closed, emissary_calls, close_trace,
          raster_dtype, raster_nodata, get_data_call>>

resampler_vars == <<alive, same_address_space, waiting_jobs, working_jobs,
          prod_array_of_prod_tile, missing_resample_fps_per_prod_tile, arrays>>

computer_vars == <<computer_alive, computer_waiting_jobs, computer_working_jobs>>

pool_vars == <<pool_waiting, pool_working, pool_tokens>>

counters == <<sub_count, done_count, made_count, alloc_count>>

emissary_vars == <<back_ds_active_count, emissary_closed, emissary_calls, close_trace>>

raster_vars == <<raster_dtype, raster_nodata, get_data_call>>

actor_vars == <<resampler_vars, computer_vars, pool_vars, last, err, ret, counters>>

(***************************************************************************)
(* Bounds                                                                  *)
(***************************************************************************)
\* Jobs the environment submits to the Resampler over a run.
MaxJobs == 3
\* Concurrency tokens of the pool.
NumTokens == 2

(***************************************************************************)
(* Query plans (qi.prod[prod_idx].fp, qi.prod[prod_idx].resample_fps).     *)
(* A footprint is the set of pixels it covers.                             *)
(***************************************************************************)
QI == {"q1", "q2"}

prod(qi) ==
    IF qi = "q1"
    THEN (0 :> [fp |-> {1, 2}, resample_fps |-> {{1}, {2}}]) @@
         (1 :> [fp |-> {3, 4}, resample_fps |-> {{3}}])
    ELSE (0 :> [fp |-> {1, 2}, resample_fps |-> {{1, 2}}])

Tiles == {t \in [qi : QI, prod_idx : 0..1] : t.prod_idx \in DOMAIN prod(t.qi)}

PlannedRequests == {r \in [qi : QI, prod_idx : 0..1, resample_fp : SUBSET (1..4)] :
                       /\ r.prod_idx \in DOMAIN prod(r.qi)
                       /\ r.resample_fp \in prod(r.qi)[r.prod_idx].resample_fps}

\* A request for a footprint that the plan of its tile does not list: the
\* handler takes any resample_fp it is sent.
UnplannedRequests == {[qi |-> "q2", prod_idx |-> 0, resample_fp |-> {1}]}

Requests == PlannedRequests \cup UnplannedRequests

\* Footprint.slice_in: the pixels of `fp` inside `outer_fp`.
slice_in(fp, outer_fp) == fp \cap outer_fp

(***************************************************************************)
(* Python dicts                                                            *)
(***************************************************************************)
EmptyDict == <<>>

Put(d, k, v) == [x \in (DOMAIN d) \cup {k} |-> IF x = k THEN v ELSE d[x]]

Del(d, k) ==
    IF (DOMAIN d) \ {k} = {} THEN EmptyDict
    ELSE [x \in (DOMAIN d) \ {k} |-> d[x]]

\* collections.defaultdict(dict): reading d[k] inserts an empty dict for a new k.
DefaultGet(d, k) == IF k \in DOMAIN d THEN d ELSE Put(d, k, EmptyDict)

(***************************************************************************)
(* Jobs, arrays and messages                                               *)
(***************************************************************************)
NoArray == [qi |-> "none", prod_idx |-> 0, n |-> 0]

\* PoolJobWorking.__init__(sender_address, func) and the Waiting base classes:
\* the attributes a job object gets from its base class.
base_job_attributes == {"sender_address"}

\* Wait.__init__ (lines 160-164): the attributes it sets.
wait_attributes ==
    {"qi", "prod_idx", "sample_fp", "resample_fp", "sample_array"} \cup base_job_attributes

\* Work.__init__ (lines 170-186): it sets qi and prod_idx, and in an isolated
\* pool _dst_array_slice; resample_fp and dst_array only go into `func`.
work_attributes(same_space) ==
    (IF same_space THEN {"qi", "prod_idx"} ELSE {"qi", "prod_idx", "_dst_array_slice"})
    \cup {"func"} \cup base_job_attributes

\* `job.name`: AttributeError unless the object has the attribute.
has_attribute(job, name) == name \in job.attrs

NoJob == [cls |-> "none", qi |-> "none", prod_idx |-> 0, resample_fp |-> {},
          k |-> 0, dst_array |-> NoArray, dst_array_slice |-> {}, attrs |-> {}]

\* Wait.__init__: the k-th Wait object made for this footprint (jobs are told
\* apart as objects, so two jobs for the same footprint are two jobs).
Wait(qi, prod_idx, resample_fp, k) ==
    [cls |-> "Wait", qi |-> qi, prod_idx |-> prod_idx, resample_fp |-> resample_fp,
     k |-> k, dst_array |-> NoArray, dst_array_slice |-> {}, attrs |-> wait_attributes]

\* Work.__init__: a new object.  resample_fp and dst_array are the arguments
\* bound in func; dst_array_slice is the value kept as _dst_array_slice.
Work(same_space, job, dst_array) ==
    [cls |-> "Work", qi |-> job.qi, prod_idx |-> job.prod_idx,
     resample_fp |-> job.resample_fp, k |-> job.k, dst_array |-> dst_array,
     dst_array_slice |->
        IF same_space THEN {}
        ELSE slice_in(job.resample_fp, prod(job.qi)[job.prod_idx].fp),
     attrs |-> work_attributes(same_space)]

\* np.empty: the content is whatever the memory held.
np_empty(fp) == [px \in fp |-> "uninit"]

\* _resample_sample_array: None when given a destination, else the array.
resample_sample_array(job, same_space) ==
    IF same_space
    THEN [is_none |-> TRUE, data |-> <<>>]
    ELSE [is_none |-> FALSE, data |-> [px \in job.resample_fp |-> "resampled"]]

\* Msg(address, title, *args): job and token for the pool's verbs; qi, prod_idx
\* and the array reference for 'made_this_array'.
Msg(address, title, job, token, qi, prod_idx, array) ==
    [address |-> address, title |-> title, job |-> job, token |-> token,
     qi |-> qi, prod_idx |-> prod_idx, array |-> array]

JobMsg(address, title, job, token) ==
    Msg(address, title, job, token, job.qi, job.prod_idx, NoArray)

waiting_room_address == "WaitingRoom"
working_room_address == "WorkingRoom"

\* A for-loop over a set that appends one message per job.
RECURSIVE MsgsFor(_, _, _)
MsgsFor(address, title, jobs) ==
    IF jobs = {} THEN <<>>
    ELSE LET j == CHOOSE x \in jobs : TRUE
         IN <<JobMsg(address, title, j, 0)>> \o MsgsFor(address, title, jobs \ {j})

RECURSIVE SumOver(_, _)
SumOver(f, S) ==
    IF S = {} THEN 0
    ELSE LET x == CHOOSE y \in S : TRUE IN f[x] + SumOver(f, S \ {x})

Request(job) == [qi |-> job.qi, prod_idx |-> job.prod_idx, resample_fp |-> job.resample_fp]

Tile(job) == [qi |-> job.qi, prod_idx |-> job.prod_idx]

(***************************************************************************)
(* The pool: what it does with the messages a handler returns.             *)
(***************************************************************************)
RECURSIVE PoolWaitingAfter(_, _)
PoolWaitingAfter(pw, msgs) ==
    IF msgs = <<>> THEN pw
    ELSE LET m == Head(msgs)
             pw1 == IF m.address # waiting_room_address THEN pw
                    ELSE IF m.title = "schedule_job" THEN pw \cup {m.job}
                    ELSE IF m.title = "unschedule_job" THEN pw \ {m.job}
                    ELSE pw
         IN PoolWaitingAfter(pw1, Tail(msgs))

RECURSIVE PoolWorkingAfter(_, _)
PoolWorkingAfter(pw, msgs) ==
    IF msgs = <<>> THEN pw
    ELSE LET m == Head(msgs)
             pw1 == IF m.address # working_room_address THEN pw
                    ELSE IF m.title = "launch_job_with_token" THEN pw \cup {m.job}
                    ELSE IF m.title = "cancel_job" THEN pw \ {m.job}
                    ELSE pw
         IN PoolWorkingAfter(pw1, Tail(msgs))

\* The tokens of the launched jobs that msgs cancel go back to the Waiting Room.
PoolTokensAfter(pt, pw, msgs) ==
    pt + Cardinality(pw \ PoolWorkingAfter(pw, msgs))

(***************************************************************************)
(* ActorResampler.__init__ and ActorComputer.__init__: the actors as built *)
(* over a thread pool (same address space) or a process pool.              *)
(***************************************************************************)
ResamplerInit ==
    /\ alive = TRUE
    /\ same_address_space \in BOOLEAN
    /\ waiting_jobs = {}
    /\ working_jobs = {}
    /\ prod_array_of_prod_tile = EmptyDict
    /\ missing_resample_fps_per_prod_tile = EmptyDict
    /\ arrays = EmptyDict
    /\ pool_waiting = {}
    /\ pool_working = {}
    /\ pool_tokens = NumTokens
    /\ last = [op |-> "init", qi |-> "none"]
    /\ err = "none"
    /\ ret = <<>>
    /\ sub_count = [r \in Requests |-> 0]
    /\ done_count = [r \in Requests |-> 0]
    /\ made_count = [t \in Tiles |-> 0]
    /\ alloc_count = [t \in Tiles |-> 0]

\* ActorComputer.__init__
ComputerActorInit ==
    /\ computer_alive = TRUE
    /\ computer_waiting_jobs = {}
    /\ computer_working_jobs = {}

(***************************************************************************)
(* Pooled resources (_a_pooled_emissary.py).  back_ds, the dataset's side  *)
(* of the activation pool, keeps one active count per uuid.                *)
(***************************************************************************)
UUIDs == {"u1", "u2"}

\* Calls of activate() and deactivate() made on one resource over a run.
MaxCalls == 3

\* back_ds.activate(uuid): one more activation of uuid.
ds_activate(counts, uuid) == [counts EXCEPT ![uuid] = @ + 1]

\* back_ds.deactivate(uuid): one activation less; the count never goes below 0.
ds_deactivate(counts, uuid) == [counts EXCEPT ![uuid] = IF @ > 0 THEN @ - 1 ELSE 0]

\* back_ds.active_count(uuid)
ds_active_count(counts, uuid) == counts[uuid]

\* ABackPooledEmissary.activate / deactivate / active_count / active
back_activate(counts, uuid) == ds_activate(counts, uuid)

\* deactivate written as a copy of activate
back_deactivate_activates(counts, uuid) == ds_activate(counts, uuid)

back_deactivate(counts, uuid) == ds_deactivate(counts, uuid)

back_active_count(counts, uuid) == ds_active_count(counts, uuid)

back_active(counts, uuid) == ds_active_count(counts, uuid) > 0

\* ABackPooledEmissary.close: `self.back_ds.deactivate(self.uuid)`, then the
\* close of the parent class.
back_close_counts(counts, uuid) == ds_deactivate(counts, uuid)

back_close_steps == <<"back_ds.deactivate", "super.close">>

\* APooledEmissary: the facade forwards to its back.
activate(counts, uuid) == back_activate(counts, uuid)

deactivate(counts, uuid) == back_deactivate(counts, uuid)

active_count(counts, uuid) == back_active_count(counts, uuid)

active(counts, uuid) == back_active(counts, uuid)

NoCalls == [activate |-> 0, deactivate |-> 0, effective |-> 0]

\* ABackPooledEmissary.__init__: a fresh uuid, nothing activated.
EmissaryInit ==
    /\ back_ds_active_count = [u \in UUIDs |-> 0]
    /\ emissary_closed = [u \in UUIDs |-> FALSE]
    /\ emissary_calls = [u \in UUIDs |-> NoCalls]
    /\ close_trace = [u \in UUIDs |-> <<>>]

Activate ==
    \E u \in UUIDs :
        /\ ~emissary_closed[u]
        /\ emissary_calls[u].activate + emissary_calls[u].deactivate < MaxCalls
        /\ back_ds_active_count' = activate(back_ds_active_count, u)
        /\ emissary_calls' = [emissary_calls EXCEPT ![u].activate = @ + 1]
        /\ UNCHANGED <<emissary_closed, close_trace, actor_vars, raster_vars>>

\* `effective` counts the deactivations that found the count positive.
Deactivate ==
    \E u \in UUIDs :
        /\ ~emissary_closed[u]
        /\ emissary_calls[u].activate + emissary_calls[u].deactivate < MaxCalls
        /\ back_ds_active_count' = deactivate(back_ds_active_count, u)
        /\ emissary_calls' =
              [emissary_calls EXCEPT
                 ![u].deactivate = @ + 1,
                 ![u].effective = IF back_ds_active_count[u] > 0 THEN @ + 1 ELSE @]
        /\ UNCHANGED <<emissary_closed, close_trace, actor_vars, raster_vars>>

Close ==
    \E u \in UUIDs :
        /\ ~emissary_closed[u]
        /\ back_ds_active_count' = back_close_counts(back_ds_active_count, u)
        /\ emissary_closed' = [emissary_closed EXCEPT ![u] = TRUE]
        /\ close_trace' = [close_trace EXCEPT ![u] = back_close_steps]
        /\ emissary_calls' =
              [emissary_calls EXCEPT
                 ![u].deactivate = @ + 1,
                 ![u].effective = IF back_ds_active_count[u] > 0 THEN @ + 1 ELSE @]
        /\ UNCHANGED <<actor_vars, raster_vars>>

(***************************************************************************)
(* ASourceRaster.get_data (_a_source_raster.py): the dst_nodata it hands   *)
(* to the back end.  A number is kept as a count of halves (5 is 2.5), so  *)
(* that a cast to an integer dtype is seen to truncate.                    *)
(***************************************************************************)
\* The largest number of halves a nodata value takes.
MaxHalves == 5

None == [is_none |-> TRUE, halves |-> 0]

Num(halves) == [is_none |-> FALSE, halves |-> halves]

NodataValues == {None} \cup {Num(h) : h \in 0..MaxHalves}

DTypes == {"uint8", "float32"}

\* dtype.type(x): numpy's scalar constructor; an integer type drops the
\* fractional part, a float type keeps these values as they are.
dtype_type(dtype, x) ==
    IF dtype = "uint8" THEN Num(2 * (x.halves \div 2)) ELSE x

\* `if dst_nodata:` in place of `if dst_nodata is not None:`
normalize_dst_nodata_truthy(dtype, nodata, dst_nodata) ==
    IF ~dst_nodata.is_none /\ dst_nodata.halves # 0 THEN dtype_type(dtype, dst_nodata)
    ELSE IF ~nodata.is_none THEN nodata
    ELSE dtype_type(dtype, Num(0))

\* lines 153-158
normalize_dst_nodata(dtype, nodata, dst_nodata) ==
    IF ~dst_nodata.is_none THEN dtype_type(dtype, dst_nodata)
    ELSE IF ~nodata.is_none THEN nodata
    ELSE dtype_type(dtype, Num(0))

NoCall == [called |-> FALSE, dst_nodata |-> None, back_dst_nodata |-> None]

\* get_data(dst_nodata=...) with the current parameter name (no deprecated
\* keyword): lines 110-115 leave dst_nodata as given; lines 169-174 pass the
\* normalized value to self._back.get_data.
get_data(dst_nodata) ==
    /\ get_data_call' =
          [called |-> TRUE, dst_nodata |-> dst_nodata,
           back_dst_nodata |-> normalize_dst_nodata(raster_dtype, raster_nodata, dst_nodata)]
    /\ UNCHANGED <<raster_dtype, raster_nodata>>

\* A raster whose get_data has not been called.
RasterInit ==
    /\ raster_dtype = "uint8"
    /\ raster_nodata = None
    /\ get_data_call = NoCall

Init ==
    /\ ResamplerInit
    /\ ComputerActorInit
    /\ EmissaryInit
    /\ RasterInit

(***************************************************************************)
(* ActorResampler.receive_resample_and_accumulate                          *)
(***************************************************************************)
resample_and_accumulate_msgs(wait) ==
    <<JobMsg(waiting_room_address, "schedule_job", wait, 0)>>

receive_resample_and_accumulate(qi, prod_idx, resample_fp) ==
    LET r == [qi |-> qi, prod_idx |-> prod_idx, resample_fp |-> resample_fp]
        wait == Wait(qi, prod_idx, resample_fp, sub_count[r] + 1)
        msgs == resample_and_accumulate_msgs(wait)
    IN /\ last' = [op |-> "resample_and_accumulate", qi |-> qi]
       /\ waiting_jobs' = waiting_jobs \cup {wait}
       /\ ret' = msgs
       /\ err' = "none"
       /\ sub_count' = [sub_count EXCEPT ![r] = @ + 1]
       /\ UNCHANGED <<alive, same_address_space, working_jobs, prod_array_of_prod_tile,
                      missing_resample_fps_per_prod_tile, arrays, computer_vars,
                      done_count, made_count, alloc_count>>

(***************************************************************************)
(* ActorResampler.receive_token_to_working_room                            *)
(***************************************************************************)
\* line 63 without the test: an array is allocated at every token
needs_allocation_always(qi, prod_idx) == TRUE

\* line 63: `prod_idx not in self._prod_array_of_prod_tile[qi]`
needs_allocation(qi, prod_idx) ==
    prod_idx \notin DOMAIN DefaultGet(prod_array_of_prod_tile, qi)[qi]

\* line 69: the outstanding set starts as the tile's resample footprints.
initial_missing_resample_fps(qi, prod_idx) == prod(qi)[prod_idx].resample_fps

token_to_working_room_msgs(work, token) ==
    <<JobMsg(working_room_address, "launch_job_with_token", work, token)>>

receive_token_to_working_room(job, token) ==
    LET qi == job.qi
        prod_idx == job.prod_idx
        t == Tile(job)
        prod_fp == prod(qi)[prod_idx].fp
        alloc == needs_allocation(qi, prod_idx)
        new_array == [qi |-> qi, prod_idx |-> prod_idx, n |-> alloc_count[t] + 1]
        pa1 == DefaultGet(prod_array_of_prod_tile, qi)
        pa2 == IF alloc THEN [pa1 EXCEPT ![qi] = Put(@, prod_idx, new_array)] ELSE pa1
        ms1 == DefaultGet(missing_resample_fps_per_prod_tile, qi)
        ms2 == IF alloc
               THEN [ms1 EXCEPT ![qi] = Put(@, prod_idx,
                                            initial_missing_resample_fps(qi, prod_idx))]
               ELSE missing_resample_fps_per_prod_tile
        dst_array == pa2[qi][prod_idx]
        work == Work(same_address_space, job, dst_array)
    IN /\ last' = [op |-> "token_to_working_room", qi |-> qi]
       /\ IF job \notin waiting_jobs
          THEN \* line 57: set.remove raises
               /\ err' = "KeyError"
               /\ ret' = <<>>
               /\ UNCHANGED <<waiting_jobs, working_jobs, prod_array_of_prod_tile,
                              missing_resample_fps_per_prod_tile, arrays, alloc_count>>
          ELSE /\ waiting_jobs' = waiting_jobs \ {job}
               /\ prod_array_of_prod_tile' = pa2
               /\ missing_resample_fps_per_prod_tile' = ms2
               /\ arrays' = IF alloc THEN Put(arrays, new_array, np_empty(prod_fp))
                            ELSE arrays
               /\ alloc_count' = IF alloc THEN [alloc_count EXCEPT ![t] = @ + 1]
                                 ELSE alloc_count
               /\ working_jobs' = working_jobs \cup {work}
               /\ err' = "none"
               /\ ret' = token_to_working_room_msgs(work, token)
       /\ UNCHANGED <<alive, same_address_space, computer_vars,
                      sub_count, done_count, made_count>>

(***************************************************************************)
(* ActorResampler.receive_job_done                                         *)
(***************************************************************************)
\* line 85: `job.dst_array_slice[:] = result`
write_slice(arrs, job, result) ==
    [arrs EXCEPT ![job.dst_array] =
        [px \in DOMAIN @ |-> IF px \in job.dst_array_slice THEN result.data[px]
                             ELSE @[px]]]

\* line 89: `.remove(job.resample_fp)`
missing_after_remove(missing, resample_fp) == missing \ {resample_fp}

\* line 89 with every exception swallowed
remove_raises_swallowed(job, missing) == "none"

\* line 89: what `.remove(job.resample_fp)` raises: the attribute is read
\* first, then set.remove looks the footprint up.
remove_raises(job, missing) ==
    IF ~has_attribute(job, "resample_fp") THEN "AttributeError"
    ELSE IF job.resample_fp \notin missing THEN "KeyError"
    ELSE "none"

\* lines 91 and 98: `len(...) == 0`
tile_is_complete(missing) == Cardinality(missing) = 0

job_done_msgs(job, dst_array, complete) ==
    IF complete
    THEN <<Msg("Producer", "made_this_array", NoJob, 0, job.qi, job.prod_idx, dst_array)>>
    ELSE <<>>

receive_job_done(job, result) ==
    LET qi == job.qi
        prod_idx == job.prod_idx
        fp == job.resample_fp
        \* line 83
        assert_fails == same_address_space /\ ~result.is_none
        \* line 85: job.dst_array_slice
        slice_fails == ~same_address_space /\ ~has_attribute(job, "dst_array_slice")
        arrays1 == IF same_address_space THEN arrays ELSE write_slice(arrays, job, result)
        \* line 87
        remove_fails == job \notin working_jobs
        \* line 88
        pa1 == DefaultGet(prod_array_of_prod_tile, qi)
        dst_fails == prod_idx \notin DOMAIN pa1[qi]
        \* line 89: self._missing...[job.qi][job.prod_idx], then job.resample_fp,
        \* then set.remove
        ms1 == DefaultGet(missing_resample_fps_per_prod_tile, qi)
        lookup_fails == prod_idx \notin DOMAIN ms1[qi]
        remove_err == remove_raises(job, ms1[qi][prod_idx])
        ms2 == [ms1 EXCEPT ![qi][prod_idx] = missing_after_remove(@, fp)]
        \* lines 91-96
        complete == tile_is_complete(ms2[qi][prod_idx])
        msgs == job_done_msgs(job, pa1[qi][prod_idx], complete)
        \* lines 98-101
        ms3 == IF complete THEN [ms2 EXCEPT ![qi] = Del(@, prod_idx)] ELSE ms2
        pa3 == IF complete THEN [pa1 EXCEPT ![qi] = Del(@, prod_idx)] ELSE pa1
        \* lines 103-106
        qi_done == DOMAIN ms3[qi] = {}
        ms4 == IF qi_done THEN Del(ms3, qi) ELSE ms3
        pa4 == IF qi_done THEN Del(pa3, qi) ELSE pa3
    IN /\ last' = [op |-> "job_done", qi |-> qi]
       /\ IF assert_fails \/ slice_fails
          THEN /\ err' = IF assert_fails THEN "AssertionError" ELSE "AttributeError"
               /\ ret' = <<>>
               /\ UNCHANGED <<arrays, working_jobs, prod_array_of_prod_tile,
                              missing_resample_fps_per_prod_tile, done_count, made_count>>
          ELSE IF remove_fails
          THEN /\ err' = "KeyError"
               /\ ret' = <<>>
               /\ arrays' = arrays1
               /\ UNCHANGED <<working_jobs, prod_array_of_prod_tile,
                              missing_resample_fps_per_prod_tile, done_count, made_count>>
          ELSE IF dst_fails
          THEN /\ err' = "KeyError"
               /\ ret' = <<>>
               /\ arrays' = arrays1
               /\ working_jobs' = working_jobs \ {job}
               /\ prod_array_of_prod_tile' = pa1
               /\ done_count' = [done_count EXCEPT ![Request(job)] = @ + 1]
               /\ UNCHANGED <<missing_resample_fps_per_prod_tile, made_count>>
          ELSE IF lookup_fails \/ remove_err # "none"
          THEN /\ err' = IF lookup_fails THEN "KeyError" ELSE remove_err
               /\ ret' = <<>>
               /\ arrays' = arrays1
               /\ working_jobs' = working_jobs \ {job}
               /\ prod_array_of_prod_tile' = pa1
               /\ missing_resample_fps_per_prod_tile' = ms1
               /\ done_count' = [done_count EXCEPT ![Request(job)] = @ + 1]
               /\ UNCHANGED made_count
          ELSE /\ err' = "none"
               /\ ret' = msgs
               /\ arrays' = arrays1
               /\ working_jobs' = working_jobs \ {job}
               /\ prod_array_of_prod_tile' = pa4
               /\ missing_resample_fps_per_prod_tile' = ms4
               /\ done_count' = [done_count EXCEPT ![Request(job)] = @ + 1]
               /\ made_count' = IF complete THEN [made_count EXCEPT ![Tile(job)] = @ + 1]
                                ELSE made_count
       /\ UNCHANGED <<alive, same_address_space, waiting_jobs, computer_vars,
                      sub_count, alloc_count>>

(***************************************************************************)
(* ActorResampler.receive_cancel_this_query                                *)
(***************************************************************************)
\* lines 119-123: the snapshot of the waiting jobs of qi
waiting_jobs_to_kill(qi) == {job \in waiting_jobs : job.qi = qi}

\* lines 129-133: the snapshot of the working jobs of qi (built, never iterated)
working_jobs_to_kill(qi) == {job \in working_jobs : job.qi = qi}

\* line 138: `return []`, whatever msgs holds
cancel_this_query_return(msgs) == <<>>

receive_cancel_this_query(qi) ==
    LET waiting_msgs == MsgsFor(waiting_room_address, "unschedule_job",
                                waiting_jobs_to_kill(qi))
    IN /\ last' = [op |-> "cancel_this_query", qi |-> qi]
       \* lines 124-126
       /\ waiting_jobs' = waiting_jobs \ waiting_jobs_to_kill(qi)
       \* lines 134-136: the loop runs over self._working_jobs itself and removes
       \* from it: the first job the iterator yields is removed, whatever its
       \* query, and the next step of the iterator raises
       \* "Set changed size during iteration".
       /\ \/ /\ working_jobs = {}
             /\ working_jobs' = working_jobs
             /\ err' = "none"
             /\ ret' = cancel_this_query_return(waiting_msgs)
          \/ \E job \in working_jobs :
                /\ working_jobs' = working_jobs \ {job}
                /\ err' = "RuntimeError"
                /\ ret' = <<>>
       /\ UNCHANGED <<alive, same_address_space, prod_array_of_prod_tile,
                      missing_resample_fps_per_prod_tile, arrays, computer_vars,
                      counters>>

(***************************************************************************)
(* ActorResampler.receive_die                                              *)
(***************************************************************************)
\* line 153: `return []`, whatever msgs holds
die_return(msgs) == <<>>

receive_die ==
    LET msgs == MsgsFor(waiting_room_address, "unschedule_job", waiting_jobs)
                \o MsgsFor(working_room_address, "cancel_job", working_jobs)
    IN /\ last' = [op |-> "die", qi |-> "none"]
       /\ IF ~alive
          THEN \* line 142
               /\ err' = "AssertionError"
               /\ ret' = <<>>
               /\ UNCHANGED <<alive, waiting_jobs, working_jobs>>
          ELSE /\ alive' = FALSE
               /\ waiting_jobs' = {}
               /\ working_jobs' = {}
               /\ err' = "none"
               /\ ret' = die_return(msgs)
       /\ UNCHANGED <<same_address_space, prod_array_of_prod_tile,
                      missing_resample_fps_per_prod_tile, arrays, computer_vars,
                      counters>>

(***************************************************************************)
(* ActorComputer                                                           *)
(***************************************************************************)
\* receive_compute_this_array: `msgs = []; return msgs`
computer_receive_compute_this_array(qi, compute_fp) ==
    /\ last' = [op |-> "computer_compute_this_array", qi |-> qi]
    /\ err' = "none"
    /\ ret' = <<>>
    /\ UNCHANGED <<resampler_vars, computer_vars, pool_vars, counters>>

\* receive_cancel_this_query: `return []`
computer_receive_cancel_this_query(qi) ==
    /\ last' = [op |-> "computer_cancel_this_query", qi |-> qi]
    /\ err' = "none"
    /\ ret' = <<>>
    /\ UNCHANGED <<resampler_vars, computer_vars, pool_vars, counters>>

\* computer.py Wait and Work.  Work.__init__ is `pass` (the call of the base
\* constructor is commented out): the object has no attribute of its own.
computer_work_attributes == {}

ComputerWait(qi, cache_fp) ==
    [cls |-> "Wait", qi |-> qi, cache_fp |-> cache_fp, attrs |-> {}]

ComputerWork(qi, cache_fp) ==
    [cls |-> "Work", qi |-> qi, cache_fp |-> cache_fp, attrs |-> computer_work_attributes]

\* receive_token_to_working_room: `self._waiting_jobs.remove(job)`, no return
\* statement (None: no message).
computer_receive_token_to_working_room(job, token) ==
    /\ last' = [op |-> "computer_token_to_working_room", qi |-> job.qi]
    /\ IF job \notin computer_waiting_jobs
       THEN /\ err' = "KeyError"
            /\ UNCHANGED computer_waiting_jobs
       ELSE /\ err' = "none"
            /\ computer_waiting_jobs' = computer_waiting_jobs \ {job}
    /\ ret' = <<>>
    /\ UNCHANGED <<resampler_vars, computer_alive, computer_working_jobs,
                   pool_vars, counters>>

\* receive_job_done: `self._working_jobs.remove(job)`, then the arguments of
\* Msg(...) are evaluated in order: job.cache_fp, then the name `array`, which
\* nothing in the function or the module defines.
computer_receive_job_done(job, result) ==
    /\ last' = [op |-> "computer_job_done", qi |-> job.qi]
    /\ IF job \notin computer_working_jobs
       THEN /\ err' = "KeyError"
            /\ UNCHANGED computer_working_jobs
       ELSE /\ computer_working_jobs' = computer_working_jobs \ {job}
            /\ err' = IF ~has_attribute(job, "cache_fp") THEN "AttributeError"
                      ELSE "NameError"
    /\ ret' = <<>>
    /\ UNCHANGED <<resampler_vars, computer_alive, computer_waiting_jobs,
                   pool_vars, counters>>

computer_receive_die ==
    /\ last' = [op |-> "computer_die", qi |-> "none"]
    /\ IF ~computer_alive
       THEN /\ err' = "AssertionError"
            /\ UNCHANGED computer_alive
       ELSE /\ computer_alive' = FALSE
            /\ err' = "none"
    /\ ret' = <<>>
    /\ UNCHANGED <<resampler_vars, computer_waiting_jobs, computer_working_jobs,
                   pool_vars, counters>>

(***************************************************************************)
(* The environment: who delivers which message.                            *)
(***************************************************************************)
\* The pool takes the messages addressed to it out of what the handler returned.
PoolReceives(pw, pk, pt) ==
    /\ pool_waiting' = PoolWaitingAfter(pw, ret')
    /\ pool_working' = PoolWorkingAfter(pk, ret')
    /\ pool_tokens' = PoolTokensAfter(pt, pk, ret')

\* The Producer asks for one resample of a production tile.
ResampleAndAccumulate ==
    \E r \in Requests :
        /\ SumOver(sub_count, Requests) < MaxJobs
        /\ receive_resample_and_accumulate(r.qi, r.prod_idx, r.resample_fp)
        /\ PoolReceives(pool_waiting, pool_working, pool_tokens)
        /\ UNCHANGED <<emissary_vars, raster_vars>>

\* The Waiting Room grants a token to a job it was asked to schedule.
TokenToWorkingRoom ==
    \E job \in pool_waiting :
        /\ pool_tokens > 0
        /\ receive_token_to_working_room(job, 1)
        /\ PoolReceives(pool_waiting \ {job}, pool_working, pool_tokens - 1)
        /\ UNCHANGED <<emissary_vars, raster_vars>>

\* The Working Room reports a job it was asked to launch; its token is free again.
JobDone ==
    \E job \in pool_working :
        /\ receive_job_done(job, resample_sample_array(job, same_address_space))
        /\ PoolReceives(pool_waiting, pool_working \ {job}, pool_tokens + 1)
        /\ UNCHANGED <<emissary_vars, raster_vars>>

CancelThisQuery ==
    \E qi \in QI :
        /\ receive_cancel_this_query(qi)
        /\ PoolReceives(pool_waiting, pool_working, pool_tokens)
        /\ UNCHANGED <<emissary_vars, raster_vars>>

Die ==
    /\ receive_die
    /\ PoolReceives(pool_waiting, pool_working, pool_tokens)
    /\ UNCHANGED <<emissary_vars, raster_vars>>

Next ==
    \/ ResampleAndAccumulate
    \/ TokenToWorkingRoom
    \/ JobDone
    \/ CancelThisQuery
    \/ Die

Spec == Init /\ [][Next]_vars

(***************************************************************************)
(* ActorComputer alone                                                     *)
(***************************************************************************)
ComputeThisArray ==
    \E t \in Tiles :
        /\ computer_receive_compute_this_array(t.qi, prod(t.qi)[t.prod_idx].fp)
        /\ UNCHANGED <<emissary_vars, raster_vars>>

ComputerCancelThisQuery ==
    \E qi \in QI :
        /\ computer_receive_cancel_this_query(qi)
        /\ UNCHANGED <<emissary_vars, raster_vars>>

ComputerDie ==
    /\ computer_receive_die
    /\ UNCHANGED <<emissary_vars, raster_vars>>

\* The jobs the two sets of the Computer can hold, one Wait and one Work per
\* sample tile of the query plans.
ComputerWaitJobs == {ComputerWait(t.qi, prod(t.qi)[t.prod_idx].fp) : t \in Tiles}

ComputerWorkJobs == {ComputerWork(t.qi, prod(t.qi)[t.prod_idx].fp) : t \in Tiles}

ComputerTokenToWorkingRoom ==
    \E job \in ComputerWaitJobs :
        /\ computer_receive_token_to_working_room(job, 1)
        /\ UNCHANGED <<emissary_vars, raster_vars>>

ComputerJobDone ==
    \E job \in ComputerWorkJobs :
        /\ computer_receive_job_done(job, "computed")
        /\ UNCHANGED <<emissary_vars, raster_vars>>

\* No statement of computer.py adds a job to _waiting_jobs or _working_jobs
\* (the scheduling is still to be written); the handlers that take jobs out
\* of the sets are run from every content of the two sets.
ComputerInit ==
    /\ ResamplerInit
    /\ same_address_space = TRUE
    /\ computer_alive = TRUE
    /\ computer_waiting_jobs \in SUBSET ComputerWaitJobs
    /\ computer_working_jobs \in SUBSET ComputerWorkJobs
    /\ EmissaryInit
    /\ RasterInit

ComputerNext ==
    \/ ComputeThisArray
    \/ ComputerTokenToWorkingRoom
    \/ ComputerJobDone
    \/ ComputerCancelThisQuery
    \/ ComputerDie

ComputerSpec == ComputerInit /\ [][ComputerNext]_vars

(***************************************************************************)
(* Pooled resources alone                                                  *)
(***************************************************************************)
PooledNext ==
    \/ Activate
    \/ Deactivate
    \/ Close

PooledSpec == Init /\ [][PooledNext]_vars

(***************************************************************************)
(* get_data alone, on every raster (dtype, first-band nodata)              *)
(***************************************************************************)
GetDataInit ==
    /\ ResamplerInit
    /\ same_address_space = TRUE
    /\ ComputerActorInit
    /\ EmissaryInit
    /\ raster_dtype \in DTypes
    /\ raster_nodata \in NodataValues
    /\ get_data_call = NoCall

GetData ==
    \E dst_nodata \in NodataValues :
        /\ get_data(dst_nodata)
        /\ UNCHANGED <<actor_vars, emissary_vars>>

GetDataNext == GetData

GetDataSpec == GetDataInit /\ [][GetDataNext]_vars

(***************************************************************************)
(* Vocabulary of the properties                                            *)
(***************************************************************************)
\* The indices of the messages of msgs sent to address with this title.
Sent(msgs, address, title) ==
    {i \in 1..Len(msgs) : msgs[i].address = address /\ msgs[i].title = title}

SentJobs(msgs, address, title) == {msgs[i].job : i \in Sent(msgs, address, title)}

\* One message per job of jobs, and no other message with this title.
OnePerJob(msgs, address, title, jobs) ==
    /\ SentJobs(msgs, address, title) = jobs
    /\ Cardinality(Sent(msgs, address, title)) = Cardinality(jobs)

\* The 'made_this_array' messages of msgs for a tile.
MadeThisArray(msgs, qi, prod_idx) ==
    {i \in 1..Len(msgs) : /\ msgs[i].address = "Producer"
                          /\ msgs[i].title = "made_this_array"
                          /\ msgs[i].qi = qi
                          /\ msgs[i].prod_idx = prod_idx}

\* d[qi][prod_idx] when the dict holds it.
Holds(d, qi, prod_idx) == qi \in DOMAIN d /\ prod_idx \in DOMAIN d[qi]

MissingIn(d, qi, prod_idx) == IF Holds(d, qi, prod_idx) THEN d[qi][prod_idx] ELSE {}

\* What a dict holds for one query.
OfQuery(d, qi) == IF qi \in DOMAIN d THEN d[qi] ELSE EmptyDict

\* The step delivers receive_job_done(job, ...): the Working Room lets go of it.
JobDoneDelivered(job) ==
    /\ last'.op = "job_done"
    /\ job \in pool_working
    /\ job \notin pool_working'

\* The step delivers receive_cancel_this_query(qi).
CancelDelivered(qi) ==
    /\ last'.op = "cancel_this_query"
    /\ last'.qi = qi

\* The requests of a production tile, and whether each was submitted once.
TileRequests(t) ==
    {[qi |-> t.qi, prod_idx |-> t.prod_idx, resample_fp |-> fp] :
        fp \in prod(t.qi)[t.prod_idx].resample_fps}

SubmittedOnce(sc, t) == \A r \in TileRequests(t) : sc[r] <= 1

(***************************************************************************)
(* C1..C10                                                                 *)
(***************************************************************************)
\* C1: for a production tile whose resample footprints are each submitted
\* once, every receive_job_done of a working job whose footprint is
\* outstanding removes exactly that footprint from the outstanding set, the
\* handler returns one 'made_this_array' for the tile exactly when the set
\* became empty, and at most one such message is emitted over the run.
C1_OutstandingSetEmptiesOnce ==
    [][\A job \in pool_working :
          LET t == Tile(job)
              before == MissingIn(missing_resample_fps_per_prod_tile, job.qi, job.prod_idx)
              after == MissingIn(missing_resample_fps_per_prod_tile', job.qi, job.prod_idx)
              emitted == Cardinality(MadeThisArray(ret', job.qi, job.prod_idx))
          IN (/\ JobDoneDelivered(job)
              /\ job \in working_jobs
              /\ SubmittedOnce(sub_count, t)
              /\ job.resample_fp \in before)
             => /\ after = before \ {job.resample_fp}
                /\ emitted = (IF after = {} THEN 1 ELSE 0)
                /\ made_count'[t] = made_count[t] + emitted
                /\ made_count'[t] <= 1]_vars

\* C2: for a production tile with two resample contributions, each submitted
\* once, receive_job_done for the first returns no Producer message and
\* receive_job_done for the second returns exactly one 'made_this_array'
\* carrying the production array of the tile.
C2_NoPartialThenOneComplete ==
    [][\A job \in pool_working :
          LET t == Tile(job)
              others == TileRequests(t) \ {Request(job)}
              made == MadeThisArray(ret', job.qi, job.prod_idx)
          IN (/\ JobDoneDelivered(job)
              /\ job \in working_jobs
              /\ Cardinality(TileRequests(t)) = 2
              /\ \A r \in TileRequests(t) : sub_count[r] = 1
              /\ Holds(prod_array_of_prod_tile, job.qi, job.prod_idx))
             => IF \E r \in others : done_count[r] = 0
                THEN made = {}
                ELSE /\ Cardinality(made) = 1
                     /\ \A i \in made :
                           ret'[i].array = prod_array_of_prod_tile[job.qi][job.prod_idx]]_vars

\* C3: receive_cancel_this_query(qi) completes without error, leaves no job
\* of qi in the waiting or working set, and returns one 'unschedule_job' per
\* waiting job of qi and one 'cancel_job' per working job of qi.
C3_CancelRemovesAndNotifies ==
    [][\A qi \in QI :
          CancelDelivered(qi)
          => /\ err' = "none"
             /\ \A job \in waiting_jobs' \cup working_jobs' : job.qi # qi
             /\ OnePerJob(ret', waiting_room_address, "unschedule_job",
                          waiting_jobs_to_kill(qi))
             /\ OnePerJob(ret', working_room_address, "cancel_job",
                          working_jobs_to_kill(qi))]_vars

\* C4: receive_cancel_this_query(qi) leaves every waiting or working job of
\* another query in its set, returns no message about such a job, and leaves
\* the production arrays and outstanding sets of the other queries unchanged.
C4_CancelIsScopedToQuery ==
    [][\A qi \in QI :
          CancelDelivered(qi)
          => /\ \A job \in waiting_jobs : job.qi # qi => job \in waiting_jobs'
             /\ \A job \in working_jobs : job.qi # qi => job \in working_jobs'
             /\ \A i \in 1..Len(ret') : ret'[i].job.qi = qi
             /\ \A other \in QI \ {qi} :
                   /\ OfQuery(prod_array_of_prod_tile', other)
                        = OfQuery(prod_array_of_prod_tile, other)
                   /\ OfQuery(missing_resample_fps_per_prod_tile', other)
                        = OfQuery(missing_resample_fps_per_prod_tile, other)
             /\ arrays' = arrays]_vars

\* C5: a second 'cancel this query' for the same qi, right after the first,
\* changes no state of the actor and returns no message.
C5_CancelIsIdempotent ==
    [][\A qi \in QI :
          (/\ last.op = "cancel_this_query"
           /\ last.qi = qi
           /\ CancelDelivered(qi))
          => /\ resampler_vars' = resampler_vars
             /\ ret' = <<>>]_vars

\* C6: when a tile needs two resamples, one has completed and the job of the
\* other is still waiting, receive_cancel_this_query removes the waiting job,
\* returns an 'unschedule_job' for it, and no 'made_this_array' for the tile
\* has been or is emitted.
C6_CancelAfterOneOfTwo ==
    [][\A job \in waiting_jobs :
          LET t == Tile(job)
              others == TileRequests(t) \ {Request(job)}
          IN (/\ CancelDelivered(job.qi)
              /\ Cardinality(TileRequests(t)) = 2
              /\ \A r \in TileRequests(t) : sub_count[r] = 1
              /\ \A r \in others : done_count[r] = 1)
             => /\ job \notin waiting_jobs'
                /\ job \in SentJobs(ret', waiting_room_address, "unschedule_job")
                /\ MadeThisArray(ret', job.qi, job.prod_idx) = {}
                /\ made_count'[t] = 0]_vars

\* C7: after receive_cancel_this_query(qi) the actor holds no production
\* array and no outstanding set for qi.
C7_CancelFreesArrays ==
    [][\A qi \in QI :
          CancelDelivered(qi)
          => /\ qi \notin DOMAIN prod_array_of_prod_tile'
             /\ qi \notin DOMAIN missing_resample_fps_per_prod_tile']_vars

\* C8: receive_job_done for a Work job that a cancellation removed from the
\* working set raises nothing, returns no message and leaves the production
\* arrays and the outstanding sets unchanged.
C8_LateCompletionDiscarded ==
    [][\A job \in pool_working :
          (/\ JobDoneDelivered(job)
           /\ alive
           /\ job \notin working_jobs)
          => /\ err' = "none"
             /\ ret' = <<>>
             /\ arrays' = arrays
             /\ prod_array_of_prod_tile' = prod_array_of_prod_tile
             /\ missing_resample_fps_per_prod_tile' = missing_resample_fps_per_prod_tile]_vars

\* C9: receive_die on an alive actor sets alive to False, empties the waiting
\* and the working set, and returns one 'unschedule_job' per job that was
\* waiting and one 'cancel_job' per job that was working.
C9_DieNotifiesPool ==
    [][(last'.op = "die" /\ alive)
          => /\ ~alive'
             /\ waiting_jobs' = {}
             /\ working_jobs' = {}
             /\ OnePerJob(ret', waiting_room_address, "unschedule_job", waiting_jobs)
             /\ OnePerJob(ret', working_room_address, "cancel_job", working_jobs)]_vars

\* C10: once dead the actor stays dead, and no later message makes it add a
\* job to its waiting or working set or return 'schedule_job' or
\* 'launch_job_with_token'.
C10_DeadActorSchedulesNothing ==
    [][~alive
          => /\ ~alive'
             /\ waiting_jobs' \subseteq waiting_jobs
             /\ working_jobs' \subseteq working_jobs
             /\ Sent(ret', waiting_room_address, "schedule_job") = {}
             /\ Sent(ret', working_room_address, "launch_job_with_token") = {}]_vars

(***************************************************************************)
(* C11..C20                                                                *)
(***************************************************************************)
\* C11: receive_compute_this_array(qi, compute_fp) on an alive Computer adds
\* one Wait job to its waiting set and returns one 'schedule_job' message for
\* it to the Waiting Room; receive_token_to_working_room for a waiting job
\* takes it out of the waiting set and adds one Work job to the working set.
C11_ComputeSchedulesThenPromotes ==
    [][/\ (last'.op = "computer_compute_this_array" /\ computer_alive)
          => /\ Cardinality(computer_waiting_jobs') = Cardinality(computer_waiting_jobs) + 1
             /\ Len(ret') = 1
             /\ OnePerJob(ret', waiting_room_address, "schedule_job",
                          computer_waiting_jobs' \ computer_waiting_jobs)
       /\ \A job \in computer_waiting_jobs :
             (last'.op = "computer_token_to_working_room"
              /\ job \notin computer_waiting_jobs')
             => Cardinality(computer_working_jobs') = Cardinality(computer_working_jobs) + 1]_vars

C14_CloseLeavesNothingActive ==
    \A u \in UUIDs :
        emissary_closed[u]
        => /\ active_count(back_ds_active_count, u) = 0
           /\ close_trace[u] = <<"back_ds.deactivate", "super.close">>

\* C17: the dst_nodata get_data hands to the back end is the given value
\* cast to the raster dtype when one is given; the raster's first-band nodata
\* when none is given and the raster has one; 0 cast to the dtype otherwise.
C17_DstNodataResolution ==
    get_data_call.called
    => LET given == get_data_call.dst_nodata
           passed == get_data_call.back_dst_nodata
       IN /\ ~given.is_none => passed = dtype_type(raster_dtype, given)
          /\ (given.is_none /\ ~raster_nodata.is_none) => passed = raster_nodata
          /\ (given.is_none /\ raster_nodata.is_none) => passed = dtype_type(raster_dtype, Num(0))
          /\ ~passed.is_none

\* get_data(dst_nodata=0) on an integer raster that has a nodata of 2.5: the
\* back end gets 0.
C17_Witness ==
    /\ get_data_call.called
    /\ get_data_call.dst_nodata = Num(0)
    /\ raster_dtype = "uint8"
    /\ raster_nodata = Num(5)
    /\ get_data_call.back_dst_nodata = Num(0)

\* The content of the production array a reference names.
Pixels(arrs, array) == arrs[array]

Uninitialized(arrs, array) ==
    {px \in DOMAIN Pixels(arrs, array) : Pixels(arrs, array)[px] = "uninit"}

\* receive_job_done(job, ...) is delivered and completes the tile of the job:
\* each resample footprint of the tile was submitted once and, with this one,
\* every one of them has been reported done.
CompletesTile(job) ==
    /\ JobDoneDelivered(job)
    /\ job \in working_jobs
    /\ Request(job) \in TileRequests(Tile(job))
    /\ \A r \in TileRequests(Tile(job)) : sub_count[r] = 1 /\ done_count'[r] = 1

\* The step delivers receive_token_to_working_room(job, token) for a waiting job.
TokenDelivered(job) ==
    /\ last'.op = "token_to_working_room"
    /\ job \in waiting_jobs
    /\ job \notin waiting_jobs'

C16_UnknownFootprintAborts ==
    [][\A job \in pool_working :
          (/\ JobDoneDelivered(job)
           /\ Holds(missing_resample_fps_per_prod_tile, job.qi, job.prod_idx)
           /\ job.resample_fp
                \notin MissingIn(missing_resample_fps_per_prod_tile, job.qi, job.prod_idx))
          => /\ err' # "none"
             /\ ret' = <<>>
             /\ \A t \in Tiles :
                   MissingIn(missing_resample_fps_per_prod_tile', t.qi, t.prod_idx)
                     = MissingIn(missing_resample_fps_per_prod_tile, t.qi, t.prod_idx)]_vars

\* receive_job_done has just raised on a working job whose footprint the
\* outstanding set of its tile does not hold.
C16_Witness ==
    /\ last.op = "job_done"
    /\ err # "none"
    /\ same_address_space
    /\ \E r \in UnplannedRequests :
          /\ done_count[r] > 0
          /\ Holds(missing_resample_fps_per_prod_tile, r.qi, r.prod_idx)
          /\ r.resample_fp
               \notin MissingIn(missing_resample_fps_per_prod_tile, r.qi, r.prod_idx)

\* C18: when each resample footprint of a tile is submitted once, a token
\* grant allocates the production array of the tile at most once over the
\* run: a grant that finds the tile's array allocates nothing and gives the
\* new Work job that same array.
C18_ArrayAllocatedAtMostOnce ==
    [][\A job \in pool_waiting :
          LET t == Tile(job)
          IN (TokenDelivered(job) /\ SubmittedOnce(sub_count, t))
             => /\ alloc_count'[t] <= 1
                /\ Holds(prod_array_of_prod_tile, job.qi, job.prod_idx)
                   => /\ alloc_count'[t] = alloc_count[t]
                      /\ arrays' = arrays
                      /\ prod_array_of_prod_tile'[job.qi][job.prod_idx]
                           = prod_array_of_prod_tile[job.qi][job.prod_idx]
                      /\ \A work \in working_jobs' \ working_jobs :
                            work.dst_array = prod_array_of_prod_tile[job.qi][job.prod_idx]]_vars

\* Two Work jobs of one tile share the one array allocated for it, after a
\* completion was delivered for another tile of the same query.
C18_Witness ==
    \E w1 \in working_jobs, w2 \in working_jobs :
        /\ Tile(w1) = Tile(w2)
        /\ w1.resample_fp # w2.resample_fp
        /\ w1.dst_array = w2.dst_array
        /\ SubmittedOnce(sub_count, Tile(w1))
        /\ alloc_count[Tile(w1)] = 1
        /\ \E r \in PlannedRequests :
              r.qi = w1.qi /\ r.prod_idx # w1.prod_idx /\ done_count[r] = 1

C20_ResultDelivery ==
    [][\A job \in pool_working :
          LET result == resample_sample_array(job, same_address_space)
              slice == slice_in(job.resample_fp, prod(job.qi)[job.prod_idx].fp)
              before == Pixels(arrays, job.dst_array)
              after == Pixels(arrays', job.dst_array)
          IN (/\ JobDoneDelivered(job)
              /\ job \in working_jobs
              /\ Request(job) \in PlannedRequests)
             => /\ \A px \in (DOMAIN before) \ slice : after[px] = before[px]
                /\ IF same_address_space
                   THEN result.is_none
                   ELSE /\ \A px \in slice : after[px] = result.data[px]
                        /\ job \notin working_jobs']_vars

(***************************************************************************)
(* C21                                                                     *)
(***************************************************************************)
\* The step delivers receive_token_to_working_room(job, token): the Waiting
\* Room lets go of the job and of one token.
TokenGranted(job) ==
    /\ last'.op = "token_to_working_room"
    /\ job \in pool_waiting
    /\ job \notin pool_waiting'

\* The tokens the Waiting Room holds plus those travelling with launched jobs.
TokensInPool(tokens, launched) == tokens + Cardinality(launched)

\* C21: every token delivered by receive_token_to_working_room is handled
\* without failure and is not lost; when the job is still waiting it leaves
\* the waiting set and the token is forwarded in exactly one
\* 'launch_job_with_token' together with a new Work job of the working set;
\* this also holds when the job was removed by cancel_this_query or die.
C21_TokensAreConserved ==
    [][\A job \in pool_waiting :
          TokenGranted(job)
          => /\ err' = "none"
             /\ TokensInPool(pool_tokens', pool_working')
                  = TokensInPool(pool_tokens, pool_working)
             /\ job \in waiting_jobs
                => /\ job \notin waiting_jobs'
                   /\ Len(ret') = 1
                   /\ Cardinality(Sent(ret', working_room_address,
                                       "launch_job_with_token")) = 1
                   /\ ret'[1].token = 1
                   /\ ret'[1].job.cls = "Work"
                   /\ Request(ret'[1].job) = Request(job)
                   /\ working_jobs' = working_jobs \cup {ret'[1].job}
                   /\ ret'[1].job \notin working_jobs]_vars

====
